---------------------------- MODULE Spec2Model ----------------------------
(***************************************************************************)
(* Persistent red-black tree (src/rbtree.rs).                              *)
(*                                                                         *)
(* A NodeRef is a colour plus an optional Arc to an immutable NodeData     *)
(* payload.  The payloads live in `heap`, the sequence of the NodeData      *)
(* records that are allocated, indexed by address; a NodeRef is the        *)
(* record [col, data] where data is an address or None.  Every function    *)
(* of the source that allocates takes the heap and returns the heap it     *)
(* leaves behind together with its result.  A failed assert!, fail! or     *)
(* unreachable! is the NodeRef Panic; it propagates through every caller.  *)
(***************************************************************************)
EXTENDS Integers, Sequences, FiniteSets, TLC

\* ---------------------------------------------------------------- bounds
\* the keys of the calls
MaxKey == 5
\* the keys of the calls of a caller that keeps clones
MaxCloneKey == 3

Keys == 1..MaxKey
CloneKeys == 1..MaxCloneKey

\* V is a type parameter the code only moves and clones, never inspects: two
\* values tell the value of an overwrite from the value it replaces
Vals == {"v1", "v2"}

\* ---------------------------------------------------------------- colours
NegativeBlack == "NegativeBlack"
Red           == "Red"
Black         == "Black"
DoubleBlack   == "DoubleBlack"
\* the outcome of fail!/assert!/unreachable!, as a colour and as a NodeRef
Failed        == "Failed"

None == 0

\* Color::inc
Color_inc(c) ==
    CASE c = NegativeBlack -> Red
      [] c = Red           -> Black
      [] c = Black         -> DoubleBlack
      [] OTHER             -> Failed

\* Color::dec with the arm of Red taken for the failing one
Color_dec_red_fails(c) ==
    CASE c = Black         -> Red
      [] c = DoubleBlack   -> Black
      [] OTHER             -> Failed

\* Color::dec
Color_dec(c) ==
    CASE c = Red           -> NegativeBlack
      [] c = Black         -> Red
      [] c = DoubleBlack   -> Black
      [] OTHER             -> Failed

\* ---------------------------------------------------------------- nodes
NodeRef(c, d) == [col |-> c, data |-> d]
NodeData(l, k, v, r) == [left |-> l, key |-> k, val |-> v, right |-> r]

Panic == NodeRef(Failed, None)
IsPanic(n) == n.col = Failed

\* the result of a function that may allocate: the heap and the NodeRef
Ret(h, n) == [h |-> h, n |-> n]

\* Arc::new: the payload is stored at an address that is not in use
Alloc(h) == Len(h) + 1

is_leaf(n) == n.data = None

new_node(h, color, left, key, val, right) ==
    IF color = Failed \/ IsPanic(left) \/ IsPanic(right)
    THEN Ret(h, Panic)
    ELSE LET a == Alloc(h)
         IN  Ret([i \in DOMAIN h \cup {a} |->
                     IF i = a THEN NodeData(left, key, val, right) ELSE h[i]],
                 NodeRef(color, a))

new_leaf(color) ==
    IF color = Black \/ color = DoubleBlack
    THEN NodeRef(color, None)
    ELSE Panic

get_data(h, n) == h[n.data]

redden(n) ==
    IF is_leaf(n) THEN Panic ELSE NodeRef(Red, n.data)

blacken(n) ==
    IF IsPanic(n) THEN Panic ELSE NodeRef(Black, n.data)

inc(n) ==
    IF Color_inc(n.col) = Failed THEN Panic ELSE NodeRef(Color_inc(n.col), n.data)

dec(n) ==
    IF Color_dec(n.col) = Failed THEN Panic ELSE NodeRef(Color_dec(n.col), n.data)

\* ---------------------------------------------------------------- lookup
\* find with the test for the left subtree taking the equal key too
RECURSIVE find_le(_, _, _)
find_le(h, self, search_key) ==
    IF is_leaf(self) THEN << >>
    ELSE LET data_ref == get_data(h, self)
         IN  IF search_key <= data_ref.key THEN find_le(h, data_ref.left, search_key)
             ELSE IF search_key > data_ref.key THEN find_le(h, data_ref.right, search_key)
             ELSE << data_ref.val >>

\* Option<&V>: None is << >>, Some(v) is <<v>>
RECURSIVE find(_, _, _)
find(h, self, search_key) ==
    IF is_leaf(self) THEN << >>
    ELSE LET data_ref == get_data(h, self)
         IN  IF search_key < data_ref.key THEN find(h, data_ref.left, search_key)
             ELSE IF search_key > data_ref.key THEN find(h, data_ref.right, search_key)
             ELSE << data_ref.val >>

\* ---------------------------------------------------------------- checkers
Max(a, b) == IF a >= b THEN a ELSE b
Min(a, b) == IF a <= b THEN a ELSE b

\* count_black_height with combine = max (useMax) or min; -1 is the failed
\* assert on a colour that is neither Red nor Black
RECURSIVE count_black_height(_, _, _)
count_black_height(h, self, useMax) ==
    IF ~(self.col = Red \/ self.col = Black) THEN -1
    ELSE IF is_leaf(self) THEN 1
    ELSE LET data_ref == get_data(h, self)
             this == IF self.col = Black THEN 1 ELSE 0
             lh   == count_black_height(h, data_ref.left, useMax)
             rh   == count_black_height(h, data_ref.right, useMax)
         IN  IF lh = -1 \/ rh = -1 THEN -1
             ELSE this + (IF useMax THEN Max(lh, rh) ELSE Min(lh, rh))

black_balanced(h, self) ==
    /\ count_black_height(h, self, TRUE) # -1
    /\ count_black_height(h, self, TRUE) = count_black_height(h, self, FALSE)

\* a failed assert makes the checker abort: reported as FALSE
RECURSIVE no_red_red(_, _)
no_red_red(h, self) ==
    IF ~(self.col = Red \/ self.col = Black) THEN FALSE
    ELSE IF ~is_leaf(self) THEN
        LET l == get_data(h, self).left
            r == get_data(h, self).right
        IN  IF ~(l.col = Red \/ l.col = Black) \/ ~(r.col = Red \/ r.col = Black)
            THEN FALSE
            ELSE IF self.col = Black
                 THEN no_red_red(h, l) /\ no_red_red(h, r)
                 ELSE IF self.col = Red /\ l.col = Black /\ r.col = Black
                      THEN no_red_red(h, l) /\ no_red_red(h, r)
                      ELSE FALSE
    ELSE TRUE

\* <<key, val>> of the maximum, << >> for the failed assert on a leaf
RECURSIVE find_max_kvp(_, _)
find_max_kvp(h, self) ==
    IF is_leaf(self) THEN << >>
    ELSE LET data == get_data(h, self)
         IN  IF is_leaf(data.right) THEN << data.key, data.val >>
             ELSE find_max_kvp(h, data.right)

\* ---------------------------------------------------------------- balance
\* create_case1 with the keys of the two children exchanged
create_case1_swapped(h, color, a, b, c, d, xk, xv, yk, yv, zk, zv) ==
    LET n1 == new_node(h, Black, a, zk, zv, b)
        n2 == new_node(n1.h, Black, c, xk, xv, d)
    IN  new_node(n2.h, color, n1.n, yk, yv, n2.n)

create_case1(h, color, a, b, c, d, xk, xv, yk, yv, zk, zv) ==
    LET n1 == new_node(h, Black, a, xk, xv, b)
        n2 == new_node(n1.h, Black, c, zk, zv, d)
    IN  new_node(n2.h, color, n1.n, yk, yv, n2.n)

Miss == [hit |-> FALSE]
Hit(r) == [hit |-> TRUE, r |-> r]

\* lines 283-318: the red left child of a Black or DoubleBlack node
balance_left(h, self) ==
    LET result_col  == Color_dec(self.col)
        node_data   == get_data(h, self)
        left_child  == node_data.left
        right_child == node_data.right
    IN  IF ~(self.col = Black \/ self.col = DoubleBlack) THEN Miss
        ELSE IF left_child.col # Red THEN Miss
        ELSE IF is_leaf(left_child) THEN Hit(Ret(h, Panic))
        ELSE
          LET ld == get_data(h, left_child)
              left_grand_child  == ld.left
              right_grand_child == ld.right
          IN  IF left_grand_child.col = Red THEN
                  IF is_leaf(left_grand_child) THEN Hit(Ret(h, Panic))
                  ELSE LET x == get_data(h, left_grand_child)
                       IN  Hit(create_case1(h, result_col,
                                   x.left, x.right, right_grand_child, right_child,
                                   x.key, x.val, ld.key, ld.val,
                                   node_data.key, node_data.val))
              ELSE IF right_grand_child.col = Red THEN
                  IF is_leaf(right_grand_child) THEN Hit(Ret(h, Panic))
                  ELSE LET y == get_data(h, right_grand_child)
                       IN  Hit(create_case1(h, result_col,
                                   left_grand_child, y.left, y.right, right_child,
                                   ld.key, ld.val, y.key, y.val,
                                   node_data.key, node_data.val))
              ELSE Miss

\* lines 320-352: the red right child of a Black or DoubleBlack node
balance_right(h, self) ==
    LET result_col  == Color_dec(self.col)
        node_data   == get_data(h, self)
        left_child  == node_data.left
        right_child == node_data.right
    IN  IF ~(self.col = Black \/ self.col = DoubleBlack) THEN Miss
        ELSE IF right_child.col # Red THEN Miss
        ELSE IF is_leaf(right_child) THEN Hit(Ret(h, Panic))
        ELSE
          LET rd == get_data(h, right_child)
              left_grand_child  == rd.left
              right_grand_child == rd.right
          IN  IF left_grand_child.col = Red THEN
                  IF is_leaf(left_grand_child) THEN Hit(Ret(h, Panic))
                  ELSE LET y == get_data(h, left_grand_child)
                       IN  Hit(create_case1(h, result_col,
                                   left_child, y.left, y.right, right_grand_child,
                                   node_data.key, node_data.val, y.key, y.val,
                                   rd.key, rd.val))
              ELSE IF right_grand_child.col = Red THEN
                  IF is_leaf(right_grand_child) THEN Hit(Ret(h, Panic))
                  ELSE LET z == get_data(h, right_grand_child)
                       IN  Hit(create_case1(h, result_col,
                                   left_child, left_grand_child, z.left, z.right,
                                   node_data.key, node_data.val, rd.key, rd.val,
                                   z.key, z.val))
              ELSE Miss

RECURSIVE balance(_, _)

\* r.balance() for the node a constructor returned
balance_of(r) == balance(r.h, r.n)

\* new_node(color, left.n, key, val, right.n) in the heap right left behind
node_of(color, left, key, val, right) ==
    new_node(right.h, color, left.n, key, val, right.n)

\* lines 355-385: DoubleBlack with a NegativeBlack right child
balance_nb_right(h, self) ==
    LET sd          == get_data(h, self)
        a           == sd.left
        right_child == sd.right
    IN  IF self.col # DoubleBlack \/ right_child.col # NegativeBlack THEN Miss
        ELSE IF is_leaf(right_child) THEN Hit(Ret(h, Panic))
        ELSE
          LET rd == get_data(h, right_child)
              left_grand_child  == rd.left
              right_grand_child == rd.right
          IN  IF /\ ~is_leaf(left_grand_child)
                 /\ left_grand_child.col = Black
                 /\ right_grand_child.col = Black
              THEN LET y  == get_data(h, left_grand_child)
                       n1 == new_node(h, Black, a, sd.key, sd.val, y.left)
                   IN  Hit(node_of(Black, n1, y.key, y.val,
                              balance_of(new_node(n1.h, Black, y.right, rd.key, rd.val,
                                                  redden(right_grand_child)))))
              ELSE Miss

\* balance without the case of the NegativeBlack left child
balance_nb_left_missing(h, self) == Miss

\* lines 387-417: DoubleBlack with a NegativeBlack left child
balance_nb_left(h, self) ==
    LET sd         == get_data(h, self)
        left_child == sd.left
        d          == sd.right
    IN  IF self.col # DoubleBlack \/ left_child.col # NegativeBlack THEN Miss
        ELSE IF is_leaf(left_child) THEN Hit(Ret(h, Panic))
        ELSE
          LET ld == get_data(h, left_child)
              left_grand_child  == ld.left
              right_grand_child == ld.right
          IN  IF /\ left_grand_child.col = Black
                 /\ ~is_leaf(right_grand_child)
                 /\ right_grand_child.col = Black
              THEN LET y  == get_data(h, right_grand_child)
                       n2 == balance_of(new_node(h, Black, redden(left_grand_child),
                                                 ld.key, ld.val, y.left))
                   IN  Hit(node_of(Black, n2, y.key, y.val,
                              new_node(n2.h, Black, y.right, sd.key, sd.val, d)))
              ELSE Miss

\* the result of the case c if it returned, of the code after it if not
OrElse(c, rest) == IF c.hit THEN c.r ELSE rest

\* balance that matches no case
balance_none(h, self) ==
    IF IsPanic(self) \/ is_leaf(self) THEN Ret(h, Panic) ELSE Ret(h, self)

balance(h, self) ==
    IF IsPanic(self) \/ is_leaf(self) THEN Ret(h, Panic)
    ELSE OrElse(balance_left(h, self),
         OrElse(balance_right(h, self),
         OrElse(balance_nb_right(h, self),
         OrElse(balance_nb_left(h, self),
                Ret(h, self)))))

\* ---------------------------------------------------------------- insertion
\* 0xdeadbeaf, the value of the counters before the recursion sets them; it
\* is beyond the integers of the model checker and stands as a number that
\* is neither of the counts 0 and 1
deadbeaf == 48879

WithCount(r, c) == [h |-> r.h, n |-> r.n, count |-> c]

\* line 262: the node rebuilt above the result sub of the left recursion
rebuilt_left(sub, c, k, v, r) ==
    WithCount(balance_of(new_node(sub.h, c, sub.n, k, v, r)), sub.count)

\* line 265 without the .balance() on the node it builds
rebuilt_right_unbalanced(sub, c, l, k, v) ==
    WithCount(new_node(sub.h, c, l, k, v, sub.n), sub.count)

\* line 265: the node rebuilt above the result sub of the right recursion
rebuilt_right(sub, c, l, k, v) ==
    WithCount(balance_of(new_node(sub.h, c, l, k, v, sub.n)), sub.count)

RECURSIVE modify_at_rec(_, _, _, _, _)

\* modify_at_rec that overwrites the value of an equal key in the payload it
\* found, instead of building a node
modify_at_rec_in_place(h, self, key, val, insertion_count) ==
    IF is_leaf(self) THEN
        IF self.col # Black THEN WithCount(Ret(h, Panic), insertion_count)
        ELSE WithCount(new_node(h, Red, self, key, val, self), 1)
    ELSE
        LET k == get_data(h, self).key
            v == get_data(h, self).val
            c == self.col
            l == get_data(h, self).left
            r == get_data(h, self).right
        IN  IF key < k THEN
                rebuilt_left(modify_at_rec(h, l, key, val, insertion_count), c, k, v, r)
            ELSE IF key > k THEN
                rebuilt_right(modify_at_rec(h, r, key, val, insertion_count), c, l, k, v)
            ELSE WithCount(Ret([h EXCEPT ![self.data].val = val], self), 0)

\* modify_at_rec that counts the overwrite of an equal key as an insertion
modify_at_rec_counts_overwrite(h, self, key, val, insertion_count) ==
    IF is_leaf(self) THEN
        IF self.col # Black THEN WithCount(Ret(h, Panic), insertion_count)
        ELSE WithCount(new_node(h, Red, self, key, val, self), 1)
    ELSE
        LET k == get_data(h, self).key
            v == get_data(h, self).val
            c == self.col
            l == get_data(h, self).left
            r == get_data(h, self).right
        IN  IF key < k THEN
                rebuilt_left(modify_at_rec(h, l, key, val, insertion_count), c, k, v, r)
            ELSE IF key > k THEN
                rebuilt_right(modify_at_rec(h, r, key, val, insertion_count), c, l, k, v)
            ELSE WithCount(new_node(h, c, l, k, val, r), 1)

modify_at_rec(h, self, key, val, insertion_count) ==
    IF is_leaf(self) THEN
        IF self.col # Black THEN WithCount(Ret(h, Panic), insertion_count)
        ELSE WithCount(new_node(h, Red, self, key, val, self), 1)
    ELSE
        LET k == get_data(h, self).key
            v == get_data(h, self).val
            c == self.col
            l == get_data(h, self).left
            r == get_data(h, self).right
        IN  IF key < k THEN
                rebuilt_left(modify_at_rec(h, l, key, val, insertion_count), c, k, v, r)
            ELSE IF key > k THEN
                rebuilt_right(modify_at_rec(h, r, key, val, insertion_count), c, l, k, v)
            ELSE WithCount(new_node(h, c, l, k, val, r), 0)

\* line 244: .blacken() on what modify_at_rec returned
blackened(r) == [r EXCEPT !.n = blacken(r.n)]

modify_at(h, self, key, val, insertion_count) ==
    blackened(modify_at_rec(h, self, key, val, insertion_count))

\* ---------------------------------------------------------------- deletion
\* the result of the functions nested in delete: heap, NodeRef, the counter
\* removal_count, and the set of branches taken so far (ev)
DRet(r, c, ev) == [h |-> r.h, n |-> r.n, count |-> c, ev |-> ev]

\* the branch t was taken on the way to r
Took(r, t) == [r EXCEPT !.ev = @ \cup {t}]

\* the result b of a call made after the call that returned sub
After(sub, b) == DRet(b, sub.count, sub.ev \cup b.ev)

\* bubble that leaves the colour of the node as it was
bubble_same_color(h, color, l, k, v, r) ==
    IF IsPanic(l) \/ IsPanic(r) THEN DRet(Ret(h, Panic), 0, {})
    ELSE IF l.col = DoubleBlack \/ r.col = DoubleBlack
    THEN DRet(balance_of(new_node(h, color, dec(l), k, v, dec(r))), 0,
              {"bubble_double_black"})
    ELSE DRet(new_node(h, color, l, k, v, r), 0, {})

\* n is not NegativeBlack, or is an internal node above two Black internal
\* nodes
NegativeBlackPlaced(h, n) ==
    n.col = NegativeBlack =>
        /\ ~is_leaf(n)
        /\ get_data(h, n).left.col = Black  /\ ~is_leaf(get_data(h, n).left)
        /\ get_data(h, n).right.col = Black /\ ~is_leaf(get_data(h, n).right)

\* balance on the node n goes past its red cases into a NegativeBlack case
NegativeBlackMatched(h, n) ==
    /\ ~balance_left(h, n).hit
    /\ ~balance_right(h, n).hit
    /\ balance_nb_right(h, n).hit \/ balance_nb_left(h, n).hit

\* a node or leaf below the root of what bubble returns: no NegativeBlack,
\* no DoubleBlack
Settled(n) ==
    IF is_leaf(n) THEN n.col = Black ELSE n.col \in {Red, Black}

\* every node and leaf below n is Settled
RECURSIVE SettledBelow(_, _)
SettledBelow(h, n) ==
    \/ is_leaf(n)
    \/ /\ Settled(get_data(h, n).left)
       /\ Settled(get_data(h, n).right)
       /\ SettledBelow(h, get_data(h, n).left)
       /\ SettledBelow(h, get_data(h, n).right)

\* no NegativeBlack node, and no DoubleBlack node or leaf below the root
TransientFree(h, n) ==
    n.col # NegativeBlack /\ SettledBelow(h, n)

\* what is recorded of the node b that line 548 built, before its balance: a
\* NegativeBlack child, and whether it is where the algorithm expects it
built_ev(b) ==
    IF IsPanic(b.n) THEN {}
    ELSE IF /\ get_data(b.h, b.n).left.col # NegativeBlack
            /\ get_data(b.h, b.n).right.col # NegativeBlack THEN {}
    ELSE {"negative_black"}
         \cup (IF /\ b.n.col = DoubleBlack
                  /\ NegativeBlackPlaced(b.h, get_data(b.h, b.n).left)
                  /\ NegativeBlackPlaced(b.h, get_data(b.h, b.n).right)
               THEN {} ELSE {"negative_black_misplaced"})
         \cup (IF NegativeBlackMatched(b.h, b.n)
               THEN {} ELSE {"negative_black_unmatched"})

\* what bubble returns (res), recorded when a transient colour is left in it
Observed(res) ==
    IF IsPanic(res.n) \/ TransientFree(res.h, res.n) THEN res
    ELSE Took(res, "transient_returned")

\* line 548: .balance() on the node b that new_node built
bubble_balanced(b) ==
    Observed(DRet(balance_of(b), 0, {"bubble_double_black"} \cup built_ev(b)))

\* bubble: kills a double-black, or moves it to the top
bubble(h, color, l, k, v, r) ==
    IF IsPanic(l) \/ IsPanic(r) THEN DRet(Ret(h, Panic), 0, {})
    ELSE IF l.col = DoubleBlack \/ r.col = DoubleBlack
    THEN bubble_balanced(new_node(h, Color_inc(color), dec(l), k, v, dec(r)))
    ELSE Observed(DRet(new_node(h, color, l, k, v, r), 0, {}))

\* bubble(color, sub, k, v, r) for the result sub of a call on the left child
bubble_left(sub, color, k, v, r) ==
    After(sub, bubble(sub.h, color, sub.n, k, v, r))

\* bubble(color, l, k, v, sub) for the result sub of a call on the right child
bubble_right(sub, color, l, k, v) ==
    After(sub, bubble(sub.h, color, l, k, v, sub.n))

RECURSIVE remove(_, _)
RECURSIVE remove_max(_, _)

\* remove: removes this node; it might leave behind a double-black node
remove(h, node) ==
    IF is_leaf(node) THEN DRet(Ret(h, Panic), 0, {})
    ELSE
      LET left  == get_data(h, node).left
          right == get_data(h, node).right
      IN  IF is_leaf(left) /\ is_leaf(right) THEN
              IF node.col = Red
              THEN DRet(Ret(h, new_leaf(Black)), 0, {"red_two_leaves"})
              ELSE IF node.col = Black THEN DRet(Ret(h, new_leaf(DoubleBlack)), 0, {})
              ELSE DRet(Ret(h, Panic), 0, {})
          ELSE IF node.col = Red /\ is_leaf(right) THEN
              DRet(Ret(h, left), 0, {"red_one_leaf"})
          ELSE IF node.col = Red /\ is_leaf(left) THEN
              DRet(Ret(h, right), 0, {"red_one_leaf"})
          ELSE IF node.col = Black /\ left.col = Red /\ is_leaf(right) THEN
              LET data == get_data(h, left)
              IN  DRet(new_node(h, Black, data.left, data.key, data.val, data.right),
                       0, {})
          ELSE IF node.col = Black /\ is_leaf(left) /\ right.col = Red THEN
              LET data == get_data(h, right)
              IN  DRet(new_node(h, Black, data.left, data.key, data.val, data.right),
                       0, {})
          ELSE IF node.col = Black /\ is_leaf(left) /\ right.col = Black THEN
              DRet(Ret(h, inc(right)), 0, {"black_one_black"})
          ELSE IF node.col = Black /\ left.col = Black /\ is_leaf(right) THEN
              DRet(Ret(h, inc(left)), 0, {"black_one_black"})
          ELSE IF ~is_leaf(left) /\ ~is_leaf(right) THEN
              LET kv == find_max_kvp(h, left)
              IN  Took(bubble_left(remove_max(h, left), node.col, kv[1], kv[2], right),
                       "two_children")
          ELSE DRet(Ret(h, Panic), 0, {})

\* remove_max that removes the node it is given, whatever its right child
remove_max_here(h, node) == remove(h, node)

\* remove_max: removes the max node
remove_max(h, node) ==
    IF is_leaf(node) THEN DRet(Ret(h, Panic), 0, {})
    ELSE
      LET d == get_data(h, node)
      IN  IF is_leaf(d.right) THEN remove(h, node)
          ELSE Took(bubble_right(remove_max(h, d.right), node.col, d.left, d.key, d.val),
                    "remove_max_rec")

\* line 458: *removal_count = c
Counted(r, c) == [r EXCEPT !.count = c]

RECURSIVE del(_, _, _, _)

\* del that counts a removal when it ends at a leaf
del_counts_leaf(h, node, search_key, removal_count) ==
    IF ~is_leaf(node) THEN
        LET c == node.col
            k == get_data(h, node).key
            v == get_data(h, node).val
            l == get_data(h, node).left
            r == get_data(h, node).right
        IN  IF search_key < k THEN
                bubble_left(del(h, l, search_key, removal_count), c, k, v, r)
            ELSE IF search_key > k THEN
                bubble_right(del(h, r, search_key, removal_count), c, l, k, v)
            ELSE Counted(remove(h, node), 1)
    ELSE DRet(Ret(h, node), 1, {})

\* del: finds the node to be removed
del(h, node, search_key, removal_count) ==
    IF ~is_leaf(node) THEN
        LET c == node.col
            k == get_data(h, node).key
            v == get_data(h, node).val
            l == get_data(h, node).left
            r == get_data(h, node).right
        IN  IF search_key < k THEN
                bubble_left(del(h, l, search_key, removal_count), c, k, v, r)
            ELSE IF search_key > k THEN
                bubble_right(del(h, r, search_key, removal_count), c, l, k, v)
            ELSE Counted(remove(h, node), 1)
    ELSE DRet(Ret(h, node), 0, {})

\* delete that returns the root as del left it
delete_no_blacken(h, self, search_key, removal_count) ==
    del(h, self, search_key, removal_count)

\* delete: delete the key, and color the new root black
delete(h, self, search_key, removal_count) ==
    blackened(del(h, self, search_key, removal_count))

\* ---------------------------------------------------------------- the map
RedBlackTree(root, len) == [root |-> root, len |-> len]

\* RedBlackTree::new
new == RedBlackTree(new_leaf(Black), 0)

\* what a call returns for the result r of the recursion: the map with the
\* len changed by d, the flag, and whether an assert failed on the way.  len
\* is a uint: a negative len stands for the value a subtraction below zero
\* wraps to.
Returned(self, r, d, flag) ==
    [h      |-> r.h,
     failed |-> IsPanic(r.n) \/ r.count = deadbeaf,
     map    |-> RedBlackTree(r.n, self.len + d),
     flag   |-> flag,
     ev     |-> IF "ev" \in DOMAIN r THEN r.ev ELSE {}]

\* lines 594-595 for the result r of modify_at
insert_of(self, r) == Returned(self, r, r.count, r.count # 0)

\* lines 594-595 with the flag testing the counter against the value it
\* started with
insert_flag_set_of(self, r) == Returned(self, r, r.count, r.count # deadbeaf)

\* insert with a flag that tests the counter against the value it started with
insert_flag_set(h, self, key, value) ==
    insert_flag_set_of(self, modify_at(h, self.root, key, value, deadbeaf))

\* RedBlackTree::insert
insert(h, self, key, value) ==
    insert_of(self, modify_at(h, self.root, key, value, deadbeaf))

\* lines 601-602 for the result r of delete
remove_of(self, r) == Returned(self, r, 0 - r.count, r.count # 0)

\* lines 601-602 with one taken from len whatever the counter says
remove_one_of(self, r) == Returned(self, r, 0 - 1, r.count # 0)

\* remove that takes one from len whatever the counter says
PersistentMap_remove_one(h, self, key) ==
    remove_one_of(self, delete(h, self.root, key, deadbeaf))

\* RedBlackTree::remove, named after the trait method it implements
PersistentMap_remove(h, self, key) ==
    remove_of(self, delete(h, self.root, key, deadbeaf))

\* ---------------------------------------------------------------- views
\* the tree a NodeRef stands for, with the addresses unfolded
RECURSIVE Tree(_, _)
Tree(h, n) ==
    IF is_leaf(n) THEN [col |-> n.col]
    ELSE LET d == get_data(h, n)
         IN  [col |-> n.col, left |-> Tree(h, d.left), key |-> d.key,
              val |-> d.val, right |-> Tree(h, d.right)]

\* the addresses a NodeRef keeps alive
RECURSIVE Reach(_, _)
Reach(h, n) ==
    IF is_leaf(n) THEN {}
    ELSE {n.data} \cup Reach(h, get_data(h, n).left) \cup Reach(h, get_data(h, n).right)

\* the keys stored under a NodeRef
RECURSIVE KeysOf(_, _)
KeysOf(h, n) ==
    IF is_leaf(n) THEN {}
    ELSE {get_data(h, n).key} \cup KeysOf(h, get_data(h, n).left)
                              \cup KeysOf(h, get_data(h, n).right)

\* the number of internal nodes under a NodeRef
RECURSIVE CountNodes(_, _)
CountNodes(h, n) ==
    IF is_leaf(n) THEN 0
    ELSE 1 + CountNodes(h, get_data(h, n).left) + CountNodes(h, get_data(h, n).right)

\* the addresses a NodeRef keeps alive, parents before children
RECURSIVE Order(_, _)
Order(h, n) ==
    IF is_leaf(n) THEN << >>
    ELSE << n.data >> \o Order(h, get_data(h, n).left) \o Order(h, get_data(h, n).right)

RECURSIVE OrderAll(_, _)
OrderAll(h, ms) ==
    IF ms = << >> THEN << >>
    ELSE Order(h, Head(ms).root) \o OrderAll(h, Tail(ms))

RECURSIVE Dedup(_, _)
Dedup(s, done) ==
    IF s = << >> THEN << >>
    ELSE IF Head(s) \in done THEN Dedup(Tail(s), done)
    ELSE << Head(s) >> \o Dedup(Tail(s), done \cup {Head(s)})

\* The end of a call.  Dropping the last Arc to a payload frees it, so what
\* stays allocated is what the maps in ms reach.  An address is only the
\* identity of a payload: the payloads that stay are named 1, 2, ... in the
\* order the maps reach them, so that two heaps that differ in nothing but
\* the names of the addresses are one state.  Result: the heap and the maps.
Settle(h, ms) ==
    LET live   == Dedup(OrderAll(h, ms), {})
        name   == [a \in { live[i] : i \in DOMAIN live } |->
                      CHOOSE i \in DOMAIN live : live[i] = a]
        ref(n) == IF is_leaf(n) THEN n ELSE NodeRef(n.col, name[n.data])
    IN  [h  |-> [i \in DOMAIN live |->
                    LET d == h[live[i]]
                    IN  NodeData(ref(d.left), d.key, d.val, ref(d.right))],
         ms |-> [j \in DOMAIN ms |-> RedBlackTree(ref(ms[j].root), ms[j].len)]]

\* BST order: under every internal node the keys to the left are smaller and
\* the keys to the right are larger
BstOrder(h, n) ==
    \A a \in Reach(h, n) :
        /\ \A k \in KeysOf(h, h[a].left)  : k < h[a].key
        /\ \A k \in KeysOf(h, h[a].right) : k > h[a].key

\* no NegativeBlack or DoubleBlack: internal nodes Red or Black, leaves Black
PersistentColor(n) ==
    IF is_leaf(n) THEN n.col = Black ELSE n.col \in {Red, Black}

PersistentColors(h, n) ==
    /\ PersistentColor(n)
    /\ \A a \in Reach(h, n) : PersistentColor(h[a].left) /\ PersistentColor(h[a].right)

\* what a caller can observe of a map
Seen(h, m) ==
    [tree |-> Tree(h, m.root),
     len  |-> m.len,
     find |-> [k \in Keys |-> find(h, m.root, k)],
     bst  |-> BstOrder(h, m.root),
     nrr  |-> no_red_red(h, m.root),
     bal  |-> black_balanced(h, m.root)]

\* ---------------------------------------------------------------- state
VARIABLES
    heap,     \* the allocated NodeData payloads, by address
    map,      \* the caller's current RedBlackTree
    snap,     \* the clone of an earlier map the caller kept: << >> or <<m>>
    seen,     \* what the caller observed of that clone when it was taken
    model,    \* the reference map: key -> << >> (absent) or <<v>>
    last,     \* the last call, as the caller recorded it
    aborted   \* a call failed an assert: the program is gone

vars == << heap, map, snap, seen, model, last, aborted >>

Init ==
    /\ heap = << >>
    /\ map = new
    /\ snap = << >>
    /\ seen = << >>
    /\ model = [k \in Keys |-> << >>]
    /\ last = [op |-> "new"]
    /\ aborted = FALSE

\* the end of a call: s is the heap and the maps that stay
Commit(s) ==
    /\ heap' = s.h
    /\ map' = Head(s.ms)
    /\ snap' = Tail(s.ms)

\* the caller takes what the call returned (r) as its map, and with rec it
\* records the call, the flag it returned and the branches it took; after a
\* failed assert the program is gone
Return(r, op, key, rec, md) ==
    IF r.failed
    THEN /\ aborted' = TRUE
         /\ UNCHANGED << heap, map, snap, seen, model, last >>
    ELSE /\ Commit(Settle(r.h, << r.map >> \o snap))
         /\ model' = md
         /\ last' = IF rec
                    THEN [op |-> op, key |-> key, flag |-> r.flag, ev |-> r.ev]
                    ELSE last
         /\ UNCHANGED << seen, aborted >>

\* map = map.insert(key, value)
Insert(key, value, rec) ==
    /\ ~aborted
    /\ Return(insert(heap, map, key, value), "insert", key, rec,
              [model EXCEPT ![key] = << value >>])

\* map = map.remove(&key)
Remove(key, rec) ==
    /\ ~aborted
    /\ Return(PersistentMap_remove(heap, map, key), "remove", key, rec,
              [model EXCEPT ![key] = << >>])

\* what the second insert of a pair returned (r2), with the flags of both
Both(r1, r2) == [r2 EXCEPT !.flag = << r1.flag, r2.flag >>]

\* the second insert of a pair, called on the map the first one returned (r1)
insert_again(r1, key, value) ==
    IF r1.failed THEN r1 ELSE Both(r1, insert(r1.h, r1.map, key, value))

\* map = map.insert(key, v1).insert(key, v2): the flag recorded is the pair
\* of the two flags
InsertPair(key, v1, v2) ==
    /\ ~aborted
    /\ Return(insert_again(insert(heap, map, key, v1), key, v2), "insert_pair",
              key, TRUE, [model EXCEPT ![key] = << v2 >>])

\* #[deriving(Clone)] on RedBlackTree: the caller keeps a clone of the map
Clone ==
    /\ ~aborted
    /\ snap = << >>
    /\ snap' = << map >>
    /\ seen' = << Seen(heap, map) >>
    /\ UNCHANGED << heap, map, model, last, aborted >>

\* the caller drops its clone
DropClone ==
    /\ ~aborted
    /\ snap # << >>
    /\ Commit(Settle(heap, << map >>))
    /\ seen' = << >>
    /\ UNCHANGED << model, last, aborted >>

\* a caller that records what its calls return
Next ==
    \/ \E k \in Keys, v \in Vals : Insert(k, v, TRUE)
    \/ \E k \in Keys : Remove(k, TRUE)

Spec == Init /\ [][Next]_vars

\* a caller that keeps a clone of an earlier map
NextClone ==
    \/ \E k \in CloneKeys, v \in Vals : Insert(k, v, FALSE)
    \/ \E k \in CloneKeys : Remove(k, FALSE)
    \/ Clone
    \/ DropClone

SpecClone == Init /\ [][NextClone]_vars

\* a caller that inserts every key twice in a row
NextPair ==
    \/ \E k \in Keys, v1, v2 \in Vals : InsertPair(k, v1, v2)
    \/ \E k \in Keys : Remove(k, TRUE)

SpecPair == Init /\ [][NextPair]_vars

\* ---------------------------------------------------------------- claims

\* C1: after any sequence of insert and remove calls from the empty map,
\* find(k) is, for every key k, the lookup of k in the reference map driven
\* by the same calls: Some(v) for the last insert of k that no remove of k
\* followed, None otherwise.
C1_FindIsModelLookup ==
    \A k \in Keys : find(heap, map.root, k) = model[k]

\* a remove of a present key has just returned, an overwritten and a first
\* value are both stored
C1_Witness ==
    /\ last.op = "remove" /\ last.flag
    /\ model[last.key] = << >>
    /\ \E j, k \in Keys : model[j] = << "v1" >> /\ model[k] = << "v2" >>
    /\ map.len >= 3

\* C2: BST order holds in every map insert or remove returns: left keys are
\* strictly smaller, right keys strictly larger, so no key occurs twice.
C2_BstOrder ==
    /\ BstOrder(heap, map.root)
    /\ CountNodes(heap, map.root) = Cardinality(KeysOf(heap, map.root))

\* a remove of a node with two children went through remove_max and a
\* bubble that met a DoubleBlack
C2_Witness ==
    /\ last.op = "remove" /\ last.flag
    /\ {"two_children", "bubble_double_black"} \subseteq last.ev
    /\ map.len >= 3

\* C3: every map insert or remove returns is black-balanced: each path from
\* the root to a leaf holds the same number of Black nodes.
C3_BlackBalanced ==
    black_balanced(heap, map.root)

\* a remove went down remove_max's recursion and bubbled a DoubleBlack up
C3_Witness ==
    /\ last.op = "remove" /\ last.flag
    /\ {"remove_max_rec", "bubble_double_black"} \subseteq last.ev

\* C4: no map insert or remove returns holds a Red node with a Red child.
C4_NoRedRed ==
    no_red_red(heap, map.root)

\* an insert of a new key has returned a tree with a Red node above two
\* internal nodes, which only balance builds
C4_Witness ==
    /\ last.op = "insert" /\ last.flag
    /\ \E a \in DOMAIN heap :
          /\ heap[a].right.col = Red
          /\ ~is_leaf(heap[a].right)
          /\ ~is_leaf(heap[heap[a].right.data].left)

\* C5: no node or leaf of a map insert or remove returns is NegativeBlack or
\* DoubleBlack: internal nodes are Red or Black, leaves are Black.
C5_PersistentColors ==
    PersistentColors(heap, map.root)

\* a remove whose bubble made a DoubleBlack node with a NegativeBlack child
\* has returned
C5_Witness ==
    /\ last.op = "remove" /\ last.flag
    /\ {"bubble_double_black", "negative_black"} \subseteq last.ev
    /\ map.len >= 4

\* C6: len is the number of distinct keys in the nodes the root reaches, and
\* never went below zero.
C6_SizeAccuracy ==
    /\ map.len = Cardinality(KeysOf(heap, map.root))
    /\ map.len >= 0

\* a remove of an absent key has returned the empty map
C6_Witness ==
    /\ last.op = "remove" /\ ~last.flag
    /\ map.len = 0

\* C7: the flag insert returns is true exactly when find(k) was None before
\* the call; on false the len is kept, on true it grows by one.
C7_InsertFlag ==
    [][ (~aborted' /\ last'.op = "insert") =>
          /\ last'.flag <=> (find(heap, map.root, last'.key) = << >>)
          /\ ~last'.flag => map'.len = map.len
          /\ last'.flag => map'.len = map.len + 1 ]_vars

\* an insert has overwritten a key of a map of three keys or more
C7_Witness ==
    /\ last.op = "insert" /\ ~last.flag
    /\ map.len >= 3

\* C8: the flag remove returns is true exactly when find(k) was Some before
\* the call; on true the len shrinks by one, find(k) is None afterwards and
\* every other key keeps its find result.
C8_RemoveFlag ==
    [][ (~aborted' /\ last'.op = "remove") =>
          /\ last'.flag <=> (find(heap, map.root, last'.key) # << >>)
          /\ last'.flag =>
               /\ map'.len = map.len - 1
               /\ find(heap', map'.root, last'.key) = << >>
               /\ \A j \in Keys \ {last'.key} :
                     find(heap', map'.root, j) = find(heap, map.root, j) ]_vars

\* a remove of a node with two children has returned true
C8_Witness ==
    /\ last.op = "remove" /\ last.flag
    /\ "two_children" \in last.ev
    /\ map.len >= 2

\* C9: remove of an absent key returns false and a map with the same tree
\* (shape, colours, keys, values) and the same len, and no bubble on the way
\* takes its DoubleBlack branch.
C9_RemoveAbsent ==
    [][ (/\ ~aborted'
         /\ last'.op = "remove"
         /\ find(heap, map.root, last'.key) = << >>) =>
          /\ ~last'.flag
          /\ Tree(heap', map'.root) = Tree(heap, map.root)
          /\ map'.len = map.len
          /\ "bubble_double_black" \notin last'.ev ]_vars

\* a remove of an absent key has gone down a tree of four keys or more
C9_Witness ==
    /\ last.op = "remove" /\ ~last.flag
    /\ map.len >= 4

\* C10: a clone taken before insert and remove calls keeps its tree, its len,
\* its find results and its invariants whatever is called on the maps
\* derived from it.
C10_Persistence ==
    \A i \in DOMAIN snap :
        /\ Seen(heap, snap[i]) = seen[i]
        /\ seen[i].bst /\ seen[i].nrr /\ seen[i].bal

\* the map has moved on from the clone (a key overwritten, a key removed)
\* and still shares payloads with it
C10_Witness ==
    /\ snap # << >>
    /\ Reach(heap, map.root) \cap Reach(heap, snap[1].root) # {}
    /\ \E j, k \in CloneKeys :
          /\ find(heap, snap[1].root, j) = << "v1" >>
          /\ find(heap, map.root, j) = << "v2" >>
          /\ find(heap, snap[1].root, k) # << >>
          /\ find(heap, map.root, k) = << >>

\* C11: the public operations are total: no sequence of insert and remove
\* calls from the empty map fails an assert!, a fail! or the unreachable!:
\* Color::inc never meets DoubleBlack, Color::dec never meets NegativeBlack,
\* redden never meets a leaf, new_leaf never gets Red or NegativeBlack, and
\* the asserts of balance, remove, remove_max and modify_at_rec hold.
C11_Total ==
    ~aborted

\* a remove has come back from remove_max, find_max_kvp, Color::inc and
\* Color::dec in bubble, and the redden of a NegativeBlack case of balance
C11_Witness ==
    /\ ~aborted
    /\ last.op = "remove" /\ last.flag
    /\ {"two_children", "negative_black"} \subseteq last.ev

\* C12 as the specification states it: for every reachable map m, every key
\* k and values v1, v2, the map insert(m, k, v1).insert(k, v2) has the len of
\* m plus one, whether or not k is a key of m.
C12_PairAddsOne ==
    [][ (~aborted' /\ last'.op = "insert_pair") =>
          map'.len = map.len + 1 ]_vars

\* C12, amended: the map insert(m, k, v1).insert(k, v2) has the len of m plus
\* one when find(m, k) is None, and the len of m when k is a key of m.
C12_PairSize ==
    [][ (~aborted' /\ last'.op = "insert_pair") =>
          map'.len = map.len + (IF find(heap, map.root, last'.key) = << >>
                                THEN 1 ELSE 0) ]_vars

\* a pair of inserts of a key the map held has returned: both flags false
C12_Witness ==
    /\ last.op = "insert_pair"
    /\ last.flag = << FALSE, FALSE >>
    /\ map.len >= 3

\* C13: during a remove, bubble makes a NegativeBlack node only as a child of
\* the DoubleBlack node it builds, and that child is an internal node above
\* two Black internal nodes; the balance that follows goes into one of its
\* two NegativeBlack cases; and what any bubble call returns holds no
\* NegativeBlack node and no DoubleBlack node except possibly its root.
C13_NegativeBlackPlaced ==
    last.op = "remove" =>
        last.ev \cap {"negative_black_misplaced", "negative_black_unmatched",
                      "transient_returned"} = {}

\* a remove of the largest key has returned whose bubble made a NegativeBlack
\* node of the Red left sibling of the DoubleBlack it met
C13_Witness ==
    /\ last.op = "remove" /\ last.flag
    /\ "negative_black" \in last.ev
    /\ last.key = MaxKey

\* C14: the branch of remove that returns the non-leaf child of a Red node
\* with exactly one leaf child is never taken, neither for the node del found
\* nor for the node remove_max ended at, in any remove on a map reached from
\* the empty map by insert and remove.
C14_RedOneLeafNeverTaken ==
    last.op = "remove" => "red_one_leaf" \notin last.ev

\* remove has been called on a Red node, at the end of remove_max: it had
\* two leaves and went through the branch before
C14_Witness ==
    /\ last.op = "remove" /\ last.flag
    /\ {"two_children", "red_two_leaves"} \subseteq last.ev
    /\ "red_one_leaf" \notin last.ev

=============================================================================
